---- MODULE Spec2Model ----
(***************************************************************************)
(* Space-Bus: the ATtiny bit-level transceiver (lib/tiny485/tiny485.c) and *)
(* the frame protocol state machine (scratch/tinyhack/sbp.c).              *)
(*                                                                         *)
(* Both files define their own interrupt vectors, so they are two separate *)
(* programs.  Spec is the transceiver, SpecSbp the frame layer; each       *)
(* leaves the other program's variables unchanged.                         *)
(***************************************************************************)
EXTENDS Integers, Sequences, FiniteSets, TLC

(***************************************************************************)
(* Bounds of the model.                                                    *)
(***************************************************************************)
\* number of ordinary (non-sentinel, non-substitute) byte values on the bus
NPlain == 1
\* node addresses are 1..MaxAddr
MaxAddr == 2
\* frame types handed to sbp_send are 0..MaxData
MaxData == 1
\* payload lengths handed to sbp_send are 0..MaxPayload and 65535
MaxPayload == 1
\* largest index value an initial state of the frame layer holds
MaxIndex == 7
\* byte events recorded after an accepted send
MaxEvents == 8

(***************************************************************************)
(* tiny485.c: constants                                                    *)
(***************************************************************************)
T485_RECV_SEED == 7
T485_XMIT_SEED == 11

T485_SYNC_BYTE == 255
T485_ESCAPE_BYTE == 85
T485_ESCAPED_SYNC == 0
T485_ESCAPED_ESCAPE == 1

T485_FLAG_ESCAPE == 1

T485_STATE_INIT1 == "INIT1"
T485_STATE_INIT2 == "INIT2"
T485_STATE_IDLE == "IDLE"
T485_STATE_RECV == "RECV"
T485_STATE_XMIT1 == "XMIT1"
T485_STATE_XMIT2 == "XMIT2"

\* byte values the environment puts on the bus or hands to send_byte
Bytes ==
  {T485_SYNC_BYTE, T485_ESCAPE_BYTE, T485_ESCAPED_SYNC, T485_ESCAPED_ESCAPE}
    \cup {160 + i : i \in 1..NPlain}

\* bit i (0 = least significant) of byte b
Bit(b, i) == (b \div (2 ^ i)) % 2

\* flags |= mask and flags & ~mask on a single-bit mask
SetFlag(f, mask) == IF (f \div mask) % 2 = 1 THEN f ELSE f + mask
ClearFlag(f, mask) == IF (f \div mask) % 2 = 1 THEN f - mask ELSE f
HasFlag(f, mask) == (f \div mask) % 2 = 1

\* the ten bit times of one byte on the bus as a remote node drives them:
\* start bit, eight data bits most significant first, stop bit
LineFrame(b) == <<0>> \o [i \in 1..8 |-> Bit(b, 8 - i)] \o <<1>>

VARIABLES
  t_state,    \* t485_data.state
  t_flags,    \* t485_data.flags
  t_buf,      \* t485_data.buf
  USIDR,      \* USI data (shift) register
  USIBR,      \* USI buffer register: copy of USIDR at the last overflow
  usicnt,     \* USISR 4-bit counter
  usioif,     \* USISR overflow interrupt flag
  usi,        \* USI clocked and wired (USI_ON / USI_OFF)
  tim0,       \* timer 0 running (TIM0_ON / TIM0_OFF)
  pcint,      \* pin-change interrupt enabled (PCINT0_ON / PCINT0_OFF)
  den,        \* line-driver enable pin
  line,       \* bit times of the byte a remote node is driving
  wire,       \* bits this node has shifted out since the last send_byte
  txByte,     \* argument of the last send_byte
  rxOrigin,   \* send_byte argument whose wire bits are on the line, or -1
  notif,      \* callback made by the last step
  rxObs,      \* what the last step received, if it was a receive overflow
  lastWasEscape, \* the raw byte received before was the escape sentinel
  escapeSeen  \* an escape sentinel has been received

tvars == <<t_state, t_flags, t_buf, USIDR, USIBR, usicnt, usioif, usi, tim0,
           pcint, den, line, wire, txByte, rxOrigin, notif, rxObs,
           lastWasEscape, escapeSeen>>

\* sbp.c: the frame layer's _data and what its handlers touch
VARIABLES
  s_state,    \* _data.state
  s_index,    \* _data.index
  s_size,     \* _data.size
  s_flags,    \* _data.flags
  s_address,  \* _data.address
  s_buf,      \* _data.buf: bit buffer of the timer handler
  frame,      \* _data.frame
  s_usi,      \* enable_usi() / disable_usi()
  s_tim0int,  \* enable_tim0_int() / disable_timer_int()
  sObs,       \* what the last step of the frame layer was
  sending,    \* an accepted sbp_send has not yet come back to idle
  txLog,      \* per overflow event since the last accepted sbp_send, the
              \* byte loaded into USIBR (-1 when none), up to MaxEvents
  hdrFrom,    \* index at which the current header reception started, or -1
  rxLog       \* bytes the overflow handler was entered with since a header
              \* reception started at index 1, up to MaxEvents

svars == <<s_state, s_index, s_size, s_flags, s_address, s_buf, frame,
           s_usi, s_tim0int, sObs, sending, txLog, hdrFrom, rxLog>>

\* what the handlers do not hold themselves
VARIABLES
  spc,        \* where the main program is in sbp_send: "out" of it, or
              \* between its test of _data.state and its writes ("tested")
  sampled,    \* the last eight levels of the data-in pin the frame layer's
              \* timer handler has sampled, oldest bit highest
  synced      \* the transceiver's timer handler has matched both preamble
              \* patterns

xvars == <<spc, sampled, synced>>

vars == <<tvars, svars, xvars>>

NoNotif == [kind |-> "none", val |-> 0]
NoRx == [raw |-> -1, esc |-> FALSE, afterEsc |-> FALSE, seenEsc |-> FALSE,
         origin |-> -1]

\* callbacks into the layer above (../interop.h), recorded as notifications
sync_received == [kind |-> "sync_received", val |-> 0]
byte_received(v) == [kind |-> "byte_received", val |-> v]
byte_sent == [kind |-> "byte_sent", val |-> 0]

\* tiny485_init: REQUIRE_SYNC selects the hunting state, otherwise Idle;
\* timer 0 runs (TCCR0B = 2), the USI has no clock (USICR = 0x50), the
\* pin-change interrupt is enabled (GIMSK = 0x20)
tiny485_init ==
  /\ t_state \in {T485_STATE_INIT1, T485_STATE_IDLE}
  /\ t_flags = 0
  /\ t_buf = 0
  /\ USIDR = 0
  /\ USIBR = 0
  /\ usicnt = 0
  /\ usioif = FALSE
  /\ usi = FALSE
  /\ tim0 = TRUE
  /\ pcint = TRUE
  /\ den = FALSE

\* begin_transmission(): enable the line driver, edge interrupt off
begin_transmission ==
  /\ den' = TRUE
  /\ pcint' = FALSE
  /\ notif' = NoNotif /\ rxObs' = NoRx
  /\ UNCHANGED <<t_state, t_flags, t_buf, USIDR, USIBR, usicnt, usioif, usi,
                 tim0, line, wire, txByte, rxOrigin, lastWasEscape, escapeSeen>>

\* end_transmission(): line driver back to high impedance, edge interrupt on
end_transmission ==
  /\ den' = FALSE
  /\ pcint' = TRUE
  /\ notif' = NoNotif /\ rxObs' = NoRx
  /\ UNCHANGED <<t_state, t_flags, t_buf, USIDR, USIBR, usicnt, usioif, usi,
                 tim0, line, wire, txByte, rxOrigin, lastWasEscape, escapeSeen>>

\* the first shift load of send_byte: USIDR = (b >> 1)
XmitFirstLoad(b) == b \div 2

\* the second shift load without the stop bit filled in
XmitSecondLoadNoStop(b) == (b * 16) % 256

\* the second shift load kept in t485_data.buf: (b << 4) | 0x0F
XmitSecondLoad(b) == ((b * 16) % 256) + 15

\* send_byte(b): no test of the current state
send_byte(b) ==
  /\ USIDR' = XmitFirstLoad(b)
  /\ usicnt' = T485_XMIT_SEED
  /\ usioif' = FALSE          \* USICOUNTER writes the flag bit back
  /\ t_buf' = XmitSecondLoad(b)
  /\ t_state' = T485_STATE_XMIT1
  /\ usi' = TRUE
  /\ tim0' = TRUE
  /\ wire' = <<>>
  /\ txByte' = b
  /\ notif' = NoNotif /\ rxObs' = NoRx
  /\ UNCHANGED <<t_flags, USIBR, pcint, den, line, rxOrigin, lastWasEscape, escapeSeen>>

SendByte == \E b \in Bytes : send_byte(b)

\* ISR(PCINT0_vect), entered on a change of the data-in pin to level lvl.
\* In Idle a low level is a start bit.  The bit times that follow are those
\* of a byte of Bytes, or the ten bits send_byte and the XMIT1 overflow put
\* on the wire (a peer running the same code), remembered in origin.
PCINT0_vect(lvl, bits, origin) ==
  /\ pcint
  /\ notif' = NoNotif /\ rxObs' = NoRx
  /\ IF t_state = T485_STATE_IDLE /\ lvl = 0
       THEN /\ t_state' = T485_STATE_RECV
            /\ usicnt' = T485_RECV_SEED
            /\ usioif' = FALSE
            /\ pcint' = FALSE
            /\ tim0' = TRUE
            /\ usi' = TRUE
            /\ line' = bits
            /\ rxOrigin' = origin
       ELSE UNCHANGED <<t_state, usicnt, usioif, pcint, tim0, usi, line,
                        rxOrigin>>
  /\ UNCHANGED <<t_flags, t_buf, USIDR, USIBR, den, wire, txByte,
                 lastWasEscape, escapeSeen>>

PinChange ==
  \/ \E lvl \in {0, 1}, b \in Bytes : PCINT0_vect(lvl, LineFrame(b), -1)
  \/ /\ Len(wire) = 10
     /\ PCINT0_vect(wire[1], wire, txByte)

\* level of the data-in pin at a bit time: the remote byte's next bit while
\* receiving, this node's own output while it drives the bus, else idle high
DataIn ==
  IF t_state = T485_STATE_RECV
    THEN line[(usicnt - T485_RECV_SEED) + 1]
    ELSE IF den THEN USIDR \div 128 ELSE 1

\* one timer-0 compare match clocking the USI: the most significant bit is
\* on the data-out pin, the register shifts left and takes data-in as its
\* least significant bit; the 4-bit counter overflows into USIOIF and the
\* shifted value is copied to USIBR
UsiClock ==
  /\ usi /\ tim0 /\ ~usioif
  /\ USIDR' = ((USIDR * 2) % 256) + DataIn
  /\ usicnt' = (usicnt + 1) % 16
  /\ usioif' = (usicnt = 15)
  /\ USIBR' = IF usicnt = 15 THEN USIDR' ELSE USIBR
  /\ wire' = IF t_state \in {T485_STATE_XMIT1, T485_STATE_XMIT2}
               THEN Append(wire, USIDR \div 128) ELSE wire
  /\ notif' = NoNotif /\ rxObs' = NoRx
  /\ UNCHANGED <<t_state, t_flags, t_buf, usi, tim0, pcint, den, line, txByte,
                 rxOrigin, lastWasEscape, escapeSeen>>

\* switch(USIBR) of the receive branch: the flags it leaves
RecvFlags(f, b) ==
  IF b = T485_SYNC_BYTE THEN f
  ELSE IF b = T485_ESCAPE_BYTE THEN SetFlag(f, T485_FLAG_ESCAPE)
  ELSE f

\* RecvNotify without its sync case: a sync sentinel goes up as data
RecvNotifySyncAsData(f, b) ==
  IF b = T485_ESCAPE_BYTE THEN NoNotif
  ELSE IF HasFlag(f, T485_FLAG_ESCAPE)
    THEN IF b = T485_ESCAPED_SYNC THEN byte_received(T485_SYNC_BYTE)
         ELSE IF b = T485_ESCAPED_ESCAPE THEN byte_received(T485_ESCAPE_BYTE)
         ELSE byte_received(b)
    ELSE byte_received(b)

\* switch(USIBR) of the receive branch: the callback it makes
RecvNotify(f, b) ==
  IF b = T485_SYNC_BYTE THEN sync_received
  ELSE IF b = T485_ESCAPE_BYTE THEN NoNotif
  ELSE IF HasFlag(f, T485_FLAG_ESCAPE)
    THEN IF b = T485_ESCAPED_SYNC THEN byte_received(T485_SYNC_BYTE)
         ELSE IF b = T485_ESCAPED_ESCAPE THEN byte_received(T485_ESCAPE_BYTE)
         ELSE byte_received(b)
    ELSE byte_received(b)

\* edge interrupt setting the receive branch leaves: PCINT0_OFF()
RecvEdgeInt == FALSE

\* case T485_STATE_XMIT1: load the second half
UsiOvfXmit1 ==
  /\ usioif' = FALSE
  /\ USIDR' = t_buf
  /\ usicnt' = T485_XMIT_SEED
  /\ t_state' = T485_STATE_XMIT2
  /\ notif' = NoNotif /\ rxObs' = NoRx
  /\ UNCHANGED <<t_flags, t_buf, USIBR, usi, tim0, pcint, den, line, wire,
                 txByte, rxOrigin, lastWasEscape, escapeSeen>>

\* Xmit2Driver had the branch released the line driver
Xmit2DriverOff == FALSE

\* line driver and edge interrupt as the XMIT2 branch leaves them
Xmit2Driver == den
Xmit2EdgeInt == pcint

\* case T485_STATE_XMIT2: stop the USI and the timer, Idle, byte_sent()
UsiOvfXmit2 ==
  /\ usioif' = FALSE
  /\ usi' = FALSE
  /\ tim0' = FALSE
  /\ t_state' = T485_STATE_IDLE
  /\ den' = Xmit2Driver
  /\ pcint' = Xmit2EdgeInt
  /\ notif' = byte_sent /\ rxObs' = NoRx
  /\ UNCHANGED <<t_flags, t_buf, USIDR, USIBR, usicnt, line, wire, txByte,
                 rxOrigin, lastWasEscape, escapeSeen>>

\* case T485_STATE_RECV: stop the USI and the timer, Idle, decode USIBR
UsiOvfRecv ==
  /\ usi' = FALSE
  /\ tim0' = FALSE
  /\ t_state' = T485_STATE_IDLE
  /\ t_buf' = USIBR
  /\ pcint' = RecvEdgeInt
  /\ t_flags' = RecvFlags(t_flags, USIBR)
  /\ notif' = RecvNotify(t_flags, USIBR)
  /\ rxObs' = [raw |-> USIBR, esc |-> HasFlag(t_flags, T485_FLAG_ESCAPE),
               afterEsc |-> lastWasEscape, seenEsc |-> escapeSeen,
               origin |-> rxOrigin]
  /\ lastWasEscape' = (USIBR = T485_ESCAPE_BYTE)
  /\ escapeSeen' = (escapeSeen \/ USIBR = T485_ESCAPE_BYTE)
  /\ line' = <<>>
  /\ rxOrigin' = -1
  /\ UNCHANGED <<USIDR, USIBR, usicnt, usioif, den, wire, txByte>>

\* the two preamble patterns
T485_INIT1 == 127
T485_INIT2 == 192

\* ISR(TIM0_COMPA_vect): the bit timer's compare match while hunting.  The
\* file never sets the compare interrupt's enable bit; the handler is taken
\* to run whenever the timer runs.
TIM0_COMPA_vect ==
  /\ tim0
  /\ t_state' =
       CASE t_state = T485_STATE_INIT1 /\ USIDR = T485_INIT1 -> T485_STATE_INIT2
         [] t_state = T485_STATE_INIT2 /\ USIDR = T485_INIT2 -> T485_STATE_IDLE
         [] OTHER -> t_state
  /\ USIDR' = IF t_state = T485_STATE_INIT1 /\ USIDR = T485_INIT1
               THEN 0 ELSE USIDR
  /\ notif' = IF t_state = T485_STATE_INIT2 /\ USIDR = T485_INIT2
               THEN sync_received ELSE NoNotif
  /\ synced' = (synced \/ (t_state = T485_STATE_INIT2 /\ USIDR = T485_INIT2))
  /\ rxObs' = NoRx
  /\ UNCHANGED <<t_flags, t_buf, USIBR, usicnt, usioif, usi, tim0, pcint, den,
                 line, wire, txByte, rxOrigin, lastWasEscape, escapeSeen>>


\* ISR(USI_OVF_vect): entered while the overflow flag is set (USIOIE is on)
USI_OVF_vect ==
  /\ usioif
  /\ CASE t_state = T485_STATE_XMIT1 -> UsiOvfXmit1
       [] t_state = T485_STATE_XMIT2 -> UsiOvfXmit2
       [] t_state = T485_STATE_RECV -> UsiOvfRecv
       [] OTHER -> /\ notif' = NoNotif /\ rxObs' = NoRx
                   /\ UNCHANGED <<t_state, t_flags, t_buf, USIDR, USIBR,
                                  usicnt, usioif, usi, tim0, pcint, den, line,
                                  wire, txByte, rxOrigin, lastWasEscape, escapeSeen>>

TInit ==
  /\ tiny485_init
  /\ line = <<>>
  /\ wire = <<>>
  /\ txByte = -1
  /\ rxOrigin = -1
  /\ notif = NoNotif
  /\ rxObs = NoRx
  /\ lastWasEscape = FALSE
  /\ escapeSeen = FALSE

(***************************************************************************)
(* sbp.c: the frame protocol                                               *)
(***************************************************************************)
SBP_HEADER_LENGTH == 6
SBP_CHECKSUM_LENGTH == 1

SBP_FLAG_ERROR == 1
SBP_FLAG_ESCAPE == 2

SBP_BYTE_SYNC == 170
SBP_BYTE_ESCAPE == 85

\* the reserved broadcast destination; sbp.c names no such value
SBP_ADDR_BROADCAST == 255

SBP_INIT == "SBP_INIT"
SBP_IDLE == "SBP_IDLE"
SBP_XMIT_HEADER == "SBP_XMIT_HEADER"
SBP_XMIT_PAYLOAD == "SBP_XMIT_PAYLOAD"
SBP_XMIT_CHECKSUM == "SBP_XMIT_CHECKSUM"
SBP_RECV_HEADER == "SBP_RECV_HEADER"
SBP_RECV_PAYLOAD == "SBP_RECV_PAYLOAD"
SBP_RECV_CHECKSUM == "SBP_RECV_CHECKSUM"
SBP_RECV_IGNORE == "SBP_RECV_IGNORE"

sbp_state_t ==
  {SBP_INIT, SBP_IDLE, SBP_XMIT_HEADER, SBP_XMIT_PAYLOAD, SBP_XMIT_CHECKSUM,
   SBP_RECV_HEADER, SBP_RECV_PAYLOAD, SBP_RECV_CHECKSUM, SBP_RECV_IGNORE}

Addrs == 1..MaxAddr
Dsts == Addrs \cup {SBP_ADDR_BROADCAST}
\* frame types handed to sbp_send
Types == 0..MaxData
\* byte values a remote sender puts into header position i
HeaderBytes(i) ==
  CASE i = 1 -> Types
    [] i = 2 -> {(l + 7) % 256 : l \in 0..MaxPayload} \cup {255}
    [] i = 3 -> {0, 1}
    [] i = 4 -> Addrs \cup {SBP_ADDR_BROADCAST}
    [] i = 5 -> Addrs
    [] OTHER -> {0}
\* byte values the shift register delivers to the frame layer: header
\* fields while a header is read, a single value where the handler does
\* not look at the byte
RecvBytes == IF s_state = SBP_RECV_HEADER THEN HeaderBytes(s_index) ELSE {0}
PayloadLengths == (0..MaxPayload) \cup {65535}
\* caller buffers, named by a number; 0 is the null pointer of sbp_init
Msgs == {1}

\* bitwise or of two bytes
Or8(a, b) ==
  LET or[i \in 0..8] ==
        IF i = 8 THEN 0
        ELSE (IF Bit(a, i) = 1 \/ Bit(b, i) = 1 THEN 2 ^ i ELSE 0) + or[i + 1]
  IN or[0]

\* USIBR is an input of a receive branch and an output of a transmit branch:
\* the step's record keeps what a transmit branch loaded (-1: nothing)
NoSObs == [kind |-> "none", accepted |-> FALSE, dst |-> 0, type |-> 0,
           length |-> 0, msg |-> 0, loaded |-> -1]

\* the frame as sbp_init leaves it: msg and length zeroed, the rest static
frame_init ==
  [sync |-> 0, type |-> 0, length |-> 0, dst |-> 0, src |-> 0,
   payload |-> 0, checksum |-> 0]

\* sbp_init(address)
sbp_init(address) ==
  /\ s_state = SBP_INIT
  /\ s_flags = 0
  /\ frame = frame_init
  /\ s_index = 0
  /\ s_address = address
  /\ s_size = 0
  /\ s_buf = 0

\* sbp_idle answering true before the first sync as well
sbp_idle_or_init == s_state \in {SBP_IDLE, SBP_INIT}

\* sbp_idle()
sbp_idle == s_state = SBP_IDLE

\* SendAccepted without the idle test
SendAcceptedAlways == TRUE

\* the test sbp_send makes before it touches anything
SendAccepted == s_state = SBP_IDLE

\* frame.length as sbp_send computes it, in 16 bits
SendLength(length) ==
  (length + SBP_HEADER_LENGTH + SBP_CHECKSUM_LENGTH) % 65536

\* source address sbp_send stores
SendSource == s_address

\* sbp_send(dst, type, length, msg)
sbp_send(dst, type, length, msg) ==
  /\ IF SendAccepted
       THEN /\ s_state' = SBP_XMIT_HEADER
            /\ s_index' = 0
            /\ frame' = [sync |-> SBP_BYTE_SYNC, type |-> type,
                         length |-> SendLength(length), dst |-> dst,
                         src |-> SendSource, payload |-> msg, checksum |-> 0]
            /\ sending' = TRUE
            /\ txLog' = <<>>
       ELSE UNCHANGED <<s_state, s_index, frame, sending, txLog>>
  /\ sObs' = IF SendAccepted
               THEN [kind |-> "sbp_send", accepted |-> TRUE, dst |-> dst,
                     type |-> type, length |-> length, msg |-> msg,
                     loaded |-> -1]
               ELSE [NoSObs EXCEPT !.kind = "sbp_send"]
  /\ UNCHANGED <<s_size, s_flags, s_address, s_buf, s_usi, s_tim0int, hdrFrom,
                 rxLog>>

SbpSend ==
  \E dst \in Dsts, type \in Types, length \in PayloadLengths, msg \in Msgs :
    sbp_send(dst, type, length, msg)

\* _data.buf = (_data.buf << 1) | (SB_PORT & SB_DIN) ? 1 : 0;  the conditional
\* binds weaker than |, so the whole or-expression is its condition
ShiftIn(buf, pin) == IF buf # 0 \/ pin # 0 THEN 1 ELSE 0

\* ISR(TIM0_vect) with the data-in pin at level pin
TIM0_vect(pin) ==
  LET b == ShiftIn(s_buf, pin)
      sync == /\ b = SBP_BYTE_SYNC
              /\ \/ s_state = SBP_IDLE
                 \/ s_state = SBP_INIT /\ ~HasFlag(s_flags, SBP_FLAG_ESCAPE)
  IN
  /\ s_state \in {SBP_INIT, SBP_IDLE}
  /\ s_buf' = b
  /\ s_flags' =
       IF s_state = SBP_INIT
         THEN IF HasFlag(s_flags, SBP_FLAG_ESCAPE)
                THEN ClearFlag(s_flags, SBP_FLAG_ESCAPE)
                ELSE IF b = SBP_BYTE_ESCAPE
                       THEN SetFlag(s_flags, SBP_FLAG_ESCAPE) ELSE s_flags
         ELSE s_flags
  /\ s_state' = IF sync THEN SBP_RECV_HEADER ELSE s_state
  /\ s_index' = IF sync THEN 1 ELSE s_index
  /\ s_tim0int' = IF sync THEN FALSE ELSE s_tim0int
  /\ s_usi' = IF sync THEN TRUE ELSE s_usi
  /\ hdrFrom' = IF sync THEN 1 ELSE hdrFrom
  /\ rxLog' = IF sync THEN <<>> ELSE rxLog
  /\ sObs' = [NoSObs EXCEPT !.kind = "tim0"]
  /\ UNCHANGED <<s_size, s_address, frame, sending, txLog>>

Tim0 == \E pin \in {0, 1} : TIM0_vect(pin)

\* the timer handler together with the record of the levels it sampled
Tim0Sampled ==
  \E pin \in {0, 1} :
    /\ TIM0_vect(pin)
    /\ sampled' = ((sampled * 2) % 256) + pin

\* sbp_send up to its test of _data.state: the call returns when the test
\* fails, otherwise the writes are still to come
SendTest ==
  /\ spc = "out"
  /\ spc' = IF SendAccepted THEN "tested" ELSE "out"
  /\ sObs' = [NoSObs EXCEPT !.kind = "sbp_send"]
  /\ UNCHANGED <<s_state, s_index, s_size, s_flags, s_address, s_buf, frame,
                 s_usi, s_tim0int, sending, txLog, hdrFrom, rxLog>>

\* sbp_send from its test on: the writes to _data
SendWrite ==
  /\ spc = "tested"
  /\ spc' = "out"
  /\ \E dst \in Dsts, type \in Types, length \in PayloadLengths, msg \in Msgs :
       /\ s_state' = SBP_XMIT_HEADER
       /\ s_index' = 0
       /\ frame' = [sync |-> SBP_BYTE_SYNC, type |-> type,
                    length |-> SendLength(length), dst |-> dst,
                    src |-> SendSource, payload |-> msg, checksum |-> 0]
       /\ sObs' = [kind |-> "sbp_send", accepted |-> TRUE, dst |-> dst,
                   type |-> type, length |-> length, msg |-> msg,
                   loaded |-> -1]
  /\ sending' = TRUE
  /\ txLog' = <<>>
  /\ UNCHANGED <<s_size, s_flags, s_address, s_buf, s_usi, s_tim0int, hdrFrom,
                 rxLog>>

\* the byte the transmit branches load into USIBR, -1 when they load none
XmitLoad ==
  CASE s_state = SBP_XMIT_HEADER ->
         CASE s_index = 0 -> frame.sync
           [] s_index = 1 -> frame.type
           [] s_index = 2 -> frame.length % 256
           [] s_index = 3 -> (frame.length \div 256) % 256
           [] s_index = 4 -> frame.dst
           [] s_index = 5 -> frame.src
           [] OTHER -> -1
    [] s_state = SBP_XMIT_CHECKSUM -> frame.checksum
    [] OTHER -> -1

\* index after a transmit branch: the transmit branches never write it
XmitIndex == s_index

\* state after a transmit branch
XmitState ==
  CASE s_state = SBP_XMIT_HEADER ->
         IF s_index \in 0..5 THEN SBP_XMIT_HEADER ELSE SBP_XMIT_PAYLOAD
    [] s_state = SBP_XMIT_PAYLOAD ->
         IF s_index = s_size + SBP_HEADER_LENGTH
           THEN SBP_XMIT_CHECKSUM ELSE SBP_XMIT_PAYLOAD
    [] s_state = SBP_XMIT_CHECKSUM -> SBP_IDLE

\* RecvHeaderFrame with the two length bytes stored the other way round
RecvHeaderFrameSwapped(b) ==
  CASE s_index = 0 -> [frame EXCEPT !.sync = b]
    [] s_index = 1 -> [frame EXCEPT !.type = b]
    [] s_index = 2 -> [frame EXCEPT !.length = 256 * b]
    [] s_index = 3 ->
         [frame EXCEPT !.length = (256 * (frame.length \div 256)) + b]
    [] s_index = 4 -> [frame EXCEPT !.dst = b]
    [] s_index = 5 -> [frame EXCEPT !.src = b]
    [] OTHER -> frame

\* the header field a received byte is stored in, by index
RecvHeaderFrame(b) ==
  CASE s_index = 0 -> [frame EXCEPT !.sync = b]
    [] s_index = 1 -> [frame EXCEPT !.type = b]
    [] s_index = 2 -> [frame EXCEPT !.length = b]
    [] s_index = 3 ->
         [frame EXCEPT !.length =
            (frame.length % 256) + 256 * Or8(frame.length \div 256, b)]
    [] s_index = 4 -> [frame EXCEPT !.dst = b]
    [] s_index = 5 -> [frame EXCEPT !.src = b]
    [] OTHER -> frame

\* state after a byte of the header: the payload state from index 5 on,
\* whatever the destination
RecvHeaderState ==
  IF s_index \in 0..4 THEN SBP_RECV_HEADER ELSE SBP_RECV_PAYLOAD

\* ISR(USI_OVF_vect) of sbp.c, with USIBR holding b at entry
SBP_USI_OVF_vect(b) ==
  /\ sObs' = [NoSObs EXCEPT !.kind = "usi_ovf", !.loaded = XmitLoad]
  /\ rxLog' = IF /\ hdrFrom = 1
                 /\ s_state \in {SBP_RECV_HEADER, SBP_RECV_PAYLOAD,
                                 SBP_RECV_CHECKSUM, SBP_RECV_IGNORE}
                 /\ Len(rxLog) < MaxEvents
               THEN Append(rxLog, b) ELSE rxLog
  /\ CASE s_state \in {SBP_INIT, SBP_IDLE} ->
            UNCHANGED <<s_state, s_index, frame, s_usi, s_tim0int, sending,
                           txLog, hdrFrom>>
       [] s_state \in {SBP_XMIT_HEADER, SBP_XMIT_PAYLOAD, SBP_XMIT_CHECKSUM} ->
            /\ s_state' = XmitState
            /\ s_index' = XmitIndex
            /\ s_usi' = IF s_state = SBP_XMIT_CHECKSUM THEN FALSE ELSE s_usi
            /\ s_tim0int' =
                 IF s_state = SBP_XMIT_CHECKSUM THEN TRUE ELSE s_tim0int
            /\ sending' = (sending /\ XmitState # SBP_IDLE)
            /\ txLog' = IF sending /\ Len(txLog) < MaxEvents
                          THEN Append(txLog, XmitLoad) ELSE txLog
            /\ UNCHANGED <<frame, hdrFrom>>
       [] s_state = SBP_RECV_HEADER ->
            /\ frame' = RecvHeaderFrame(b)
            /\ s_state' = RecvHeaderState
            /\ s_index' = (s_index + 1) % 65536
            /\ UNCHANGED <<s_usi, s_tim0int, sending, txLog, hdrFrom>>
       [] OTHER ->
            \* SBP_RECV_PAYLOAD, SBP_RECV_CHECKSUM, SBP_RECV_IGNORE: the
            \* branches hold comments only
            UNCHANGED <<s_state, s_index, frame, s_usi, s_tim0int, sending,
                           txLog, hdrFrom>>
  /\ UNCHANGED <<s_size, s_flags, s_address, s_buf>>

SbpUsiOvf == \E b \in RecvBytes : SBP_USI_OVF_vect(b)

\* The frame layer is checked as its handlers act on _data: from sbp_init's
\* result, and from every other value of the state enum with an index up to
\* MaxIndex, a frame as sbp_send leaves it, and the shift register and the
\* timer interrupt as the handlers switch them on entering a receive state.
SInit ==
  /\ \E a \in Addrs :
       \/ sbp_init(a)
       \/ /\ s_address = a
          /\ s_state \in sbp_state_t \ {SBP_INIT}
          /\ s_index \in 0..MaxIndex
          /\ s_flags = 0
          /\ s_size = 0
          /\ s_buf \in {0, 1}
          /\ frame = [sync |-> SBP_BYTE_SYNC, type |-> 0,
                       length |-> SendLength(0), dst |-> a, src |-> a,
                       payload |-> 1, checksum |-> 0]
  /\ s_usi = (s_state \in {SBP_RECV_HEADER, SBP_RECV_PAYLOAD,
                           SBP_RECV_CHECKSUM, SBP_RECV_IGNORE})
  /\ s_tim0int = ~s_usi
  /\ sObs = NoSObs
  /\ sending = FALSE
  /\ txLog = <<>>
  /\ hdrFrom = IF s_state = SBP_RECV_HEADER THEN s_index ELSE -1
  /\ rxLog = <<>>

\* the frame layer as the transceiver's specification holds it
SFixed ==
  /\ sbp_init(1)
  /\ s_usi = FALSE
  /\ s_tim0int = TRUE
  /\ sObs = NoSObs
  /\ sending = FALSE
  /\ txLog = <<>>
  /\ hdrFrom = -1
  /\ rxLog = <<>>

\* the transceiver as the frame layer's specification holds it
TFixed ==
  /\ TInit
  /\ t_state = T485_STATE_IDLE

XFixed ==
  /\ spc = "out"
  /\ sampled = 0
  /\ synced = FALSE

Init == TInit /\ SFixed /\ XFixed

Next ==
  \/ begin_transmission /\ UNCHANGED <<svars, xvars>>
  \/ end_transmission /\ UNCHANGED <<svars, xvars>>
  \/ SendByte /\ UNCHANGED <<svars, xvars>>
  \/ PinChange /\ UNCHANGED <<svars, xvars>>
  \/ UsiClock /\ UNCHANGED <<svars, xvars>>
  \/ USI_OVF_vect /\ UNCHANGED <<svars, xvars>>
  \/ TIM0_COMPA_vect /\ UNCHANGED <<svars, spc, sampled>>

Spec == Init /\ [][Next]_vars

\* the transceiver built with REQUIRE_SYNC: it starts hunting
InitHunt == Init /\ t_state = T485_STATE_INIT1

SpecHunt == InitHunt /\ [][Next]_vars

InitSbp == SInit /\ TFixed /\ XFixed

NextSbp ==
  \/ SbpSend /\ UNCHANGED <<tvars, xvars>>
  \/ Tim0 /\ UNCHANGED <<tvars, xvars>>
  \/ SbpUsiOvf /\ UNCHANGED <<tvars, xvars>>

SpecSbp == InitSbp /\ [][NextSbp]_vars

\* The frame layer with the main program's sbp_send interruptible between
\* its test and its writes (the file masks no interrupt), and with the line
\* levels the timer handler samples on record.
NextSbpIsr ==
  \/ SendTest /\ UNCHANGED <<tvars, sampled, synced>>
  \/ SendWrite /\ UNCHANGED <<tvars, sampled, synced>>
  \/ Tim0Sampled /\ UNCHANGED <<tvars, spc, synced>>
  \/ SbpUsiOvf /\ UNCHANGED <<tvars, xvars>>

SpecSbpIsr == InitSbp /\ [][NextSbpIsr]_vars

(***************************************************************************)
(* Properties of the transceiver (checked under Spec)                      *)
(***************************************************************************)

\* the last step was the receive branch of the overflow handler
Received == rxObs.raw # -1

\* C1: after the receive path has processed any byte other than the escape
\* sentinel, the escape-pending flag T485_FLAG_ESCAPE is clear.
C1_EscapeClearedByNextByte ==
  (Received /\ rxObs.raw # T485_ESCAPE_BYTE)
    => ~HasFlag(t_flags, T485_FLAG_ESCAPE)

\* C2: the wire bits send_byte(b) produces, fed to the receive path with the
\* escape flag clear, give exactly the notification byte_received(b), for
\* every b.
C2_EscapeRoundTrip ==
  (Received /\ rxObs.origin # -1 /\ ~rxObs.esc)
    => notif = byte_received(rxObs.origin)

CodecDelivers(pending, b) ==
  IF b = T485_ESCAPE_BYTE THEN NoNotif
  ELSE IF b = T485_SYNC_BYTE THEN sync_received
  ELSE IF pending /\ b = T485_ESCAPED_SYNC THEN byte_received(T485_SYNC_BYTE)
  ELSE IF pending /\ b = T485_ESCAPED_ESCAPE
    THEN byte_received(T485_ESCAPE_BYTE)
  ELSE byte_received(b)

\* C4: receive-side decoding matches the escape codec for every incoming
\* byte sequence: the escape sentinel is consumed silently, the byte right
\* after it is mapped back (escaped-sync to sync, escaped-escape to escape,
\* anything else unchanged), and a byte that does not follow an escape
\* sentinel is delivered unchanged.
C4_DecodeMatchesCodec ==
  (Received /\ ~(rxObs.afterEsc /\ rxObs.raw = T485_SYNC_BYTE))
    => notif = CodecDelivers(rxObs.afterEsc, rxObs.raw)

\* C5: when a byte has been clocked in, the overflow handler leaves the
\* transceiver Idle with the edge interrupt enabled, so that a further
\* falling edge starts a reception.
C5_IdleWithEdgeIntAfterReceive ==
  Received => (t_state = T485_STATE_IDLE /\ pcint)

C7_SendOnlyWhenIdle ==
  [][sObs'.kind = "sbp_send" =>
       IF s_state = SBP_IDLE
         THEN /\ s_state' = SBP_XMIT_HEADER
              /\ s_index' = 0
              /\ frame'.sync = SBP_BYTE_SYNC
              /\ frame'.type = sObs'.type
              /\ frame'.dst = sObs'.dst
              /\ frame'.src = s_address
         ELSE UNCHANGED <<s_state, s_index, s_flags, frame>>]_vars

\* C7 witness: a broadcast send was accepted and the frame layer is in
\* SBP_XMIT_HEADER.
C7_Witness ==
  /\ sObs.kind = "sbp_send" /\ sObs.accepted
  /\ sObs.dst = SBP_ADDR_BROADCAST
  /\ s_state = SBP_XMIT_HEADER /\ s_index = 0

\* contents of the caller's buffer msg at offset i
MsgByte(msg, i) == (16 * msg + i) % 256

\* the byte the k-th byte-sent event (k = 0, 1, ...) has to supply
ExpectedByte(k) ==
  CASE k = 0 -> frame.sync
    [] k = 1 -> frame.type
    [] k = 2 -> frame.length % 256
    [] k = 3 -> frame.length \div 256
    [] k = 4 -> frame.dst
    [] k = 5 -> frame.src
    [] k >= 6 /\ k < frame.length - 1 -> MsgByte(frame.payload, k - 6)
    [] OTHER -> frame.checksum

RecvStates ==
  {SBP_RECV_HEADER, SBP_RECV_PAYLOAD, SBP_RECV_CHECKSUM, SBP_RECV_IGNORE}
XmitStates == {SBP_XMIT_HEADER, SBP_XMIT_PAYLOAD, SBP_XMIT_CHECKSUM}

C18_HeaderParsing ==
  hdrFrom = 1 =>
    LET n == IF Len(rxLog) < 5 THEN Len(rxLog) ELSE 5 IN
    /\ n < 5 => (s_state = SBP_RECV_HEADER /\ s_index = 1 + n)
    /\ n = 5 => (s_state = SBP_RECV_PAYLOAD /\ s_index = 6)
    /\ n >= 1 => frame.type = rxLog[1]
    /\ n = 2 => frame.length = rxLog[2]
    /\ n >= 3 => frame.length = rxLog[2] + 256 * rxLog[3]
    /\ n >= 4 => frame.dst = rxLog[4]
    /\ n >= 5 => frame.src = rxLog[5]

\* C18 witness: a complete header with a non-zero high length byte has been
\* stored and the header state left.
C18_Witness ==
  /\ hdrFrom = 1
  /\ Len(rxLog) = 5
  /\ rxLog[3] = 1
  /\ frame.length = rxLog[2] + 256
  /\ s_state = SBP_RECV_PAYLOAD /\ s_index = 6

SendInProgress == s_state \in XmitStates
RecvInProgress == s_state \in RecvStates

\* C12: sbp_idle returns true exactly when neither a send nor a receive is
\* in progress, in every reachable state, the state right after sbp_init
\* included.
C12_IdleIffNoTransfer == sbp_idle <=> ~(SendInProgress \/ RecvInProgress)

\* C12 (amended): sbp_idle returns true exactly when neither a send nor a
\* receive is in progress and the frame layer has left SBP_INIT; while it
\* is still hunting for the first sync sbp_idle returns false.
C12_IdleIffNoTransferAndSynced ==
  sbp_idle <=> (~(SendInProgress \/ RecvInProgress) /\ s_state # SBP_INIT)

\* C12 witness: timer ticks have been handled since sbp_init, no transfer
\* is in progress and sbp_idle still answers false.
C12_Witness ==
  /\ s_state = SBP_INIT
  /\ sObs.kind = "tim0"
  /\ ~sbp_idle
  /\ ~(SendInProgress \/ RecvInProgress)

C17_SyncDetected ==
  [][(/\ sObs'.kind = "tim0"
      /\ sampled' = SBP_BYTE_SYNC
      /\ \/ s_state = SBP_IDLE
         \/ s_state = SBP_INIT /\ ~HasFlag(s_flags, SBP_FLAG_ESCAPE))
       => (s_state' = SBP_RECV_HEADER /\ s_index' = 1)]_vars

(***************************************************************************)
(* More properties of the transceiver                                      *)
(***************************************************************************)

\* C15: the transceiver state determines the armed peripherals.  Receiving:
\* shift register and bit timer on, edge interrupt off.  Either transmit
\* state: line driver asserted, shift register and bit timer on, edge
\* interrupt off.  Idle: shift register and bit timer off, line driver
\* deasserted, edge interrupt on.
C15_StateDeterminesPeripherals ==
  /\ t_state = T485_STATE_RECV => (usi /\ tim0 /\ ~pcint)
  /\ t_state \in {T485_STATE_XMIT1, T485_STATE_XMIT2}
       => (den /\ usi /\ tim0 /\ ~pcint)
  /\ t_state = T485_STATE_IDLE => (~usi /\ ~tim0 /\ ~den /\ pcint)

\* C16: XMIT1 is entered only from Idle: a step that leaves the transceiver
\* in XMIT1 either started in Idle or started in XMIT1 and left the staging
\* buffer alone; a send_byte while receiving, hunting or transmitting
\* changes neither the state nor the staging buffer.
C16_TransmitOnlyFromIdle ==
  [][t_state' = T485_STATE_XMIT1 =>
       \/ t_state = T485_STATE_IDLE
       \/ t_state = T485_STATE_XMIT1 /\ t_buf' = t_buf]_vars

\* C19: started in the first hunting state, the transceiver is in Idle (or
\* beyond it, receiving) only after the timer handler matched the first and
\* then the second preamble pattern; until then nothing is received and
\* neither sync_received nor byte_received is signalled.
C19_HuntingOrder ==
  ~synced =>
    /\ t_state \notin {T485_STATE_IDLE, T485_STATE_RECV}
    /\ notif.kind \notin {"sync_received", "byte_received"}

\* the n highest bits of the shift register, in the order they leave it
ShiftOut(v, n) == [i \in 1..n |-> Bit(v, 8 - i)]

\* the bits the two shift loads of byte b put on the wire
WireOf(b) ==
  ShiftOut(XmitFirstLoad(b), 16 - T485_XMIT_SEED)
    \o ShiftOut(XmitSecondLoad(b), 16 - T485_XMIT_SEED)

\* the 8-bit shift register after the bits have been shifted in
RECURSIVE ShiftInto(_, _)
ShiftInto(reg, bits) ==
  IF bits = <<>> THEN reg
  ELSE ShiftInto(((reg * 2) % 256) + Head(bits), Tail(bits))

\* C20: the two 5-bit shift loads of send_byte(b) and the XMIT1 overflow put
\* exactly ten bits on the wire, the start bit 0, the eight bits of b most
\* significant first and the stop bit 1; a receiver that shifts in nine bits
\* from the start bit on (the receive seed) ends with its shift register
\* equal to b.
C20_BitFraming ==
  /\ Len(wire) <= 10
  /\ wire = SubSeq(LineFrame(txByte), 1, Len(wire))
  /\ (Received /\ rxObs.origin # -1) => rxObs.raw = rxObs.origin
  /\ notif = byte_sent =>
       \A b \in 0..255 :
         /\ WireOf(b) = LineFrame(b)
         /\ ShiftInto(0, SubSeq(WireOf(b), 1, 16 - T485_RECV_SEED)) = b

\* C20 witness: the ten bits of a transmitted byte have come back through
\* the receive path and the shift register held that byte.
C20_Witness ==
  /\ Received
  /\ rxObs.origin = 161
  /\ rxObs.raw = 161

====
